---- MODULE Spec2Model ----
(***************************************************************************)
(* BrainBangCompiler (src/compilers/brainbang_compiler.py): the line-based *)
(* translator from BrainBang source text to Brainfuck tokens.              *)
(*                                                                         *)
(* Text is modelled as a sequence of characters, each character a string.  *)
(* Two characters outside Latin-1 / at its upper edge are written by their *)
(* code point names: "U00FF" (ordinal 255) and "U0100" (ordinal 256).      *)
(* self.output is the list of appended string chunks; the returned text is *)
(* their concatenation.                                                    *)
(***************************************************************************)
EXTENDS Integers, Sequences, FiniteSets, TLC

VARIABLES source_code, processed_lines, line_num, output, current_indent,
          loop_stack, pc, result, exc, reused

vars == <<source_code, processed_lines, line_num, output, current_indent,
          loop_stack, pc, result, exc, reused>>

(***************************************************************************)
(* Bounds and program constants                                            *)
(***************************************************************************)
\* longest block-structure program, in lines
MaxLines == 3

\* longest program compiled on a compiler that is used again, in lines
MaxReuseLines == 2

\* largest value of one cell
MaxCell == 255

\* indentation units of one tab character
TabWidth == 4

(***************************************************************************)
(* Python's str operations, on character sequences                         *)
(***************************************************************************)
Digits == <<"0", "1", "2", "3", "4", "5", "6", "7", "8", "9">>

\* str.isspace() of one character
IsSpace(c) == c \in {" ", "\t", "\n", "\r"}

\* s[i:] for 0-based i within the text
From(s, i) == SubSeq(s, i + 1, Len(s))

\* s.startswith(p)
StartsWith(s, p) == Len(s) >= Len(p) /\ SubSeq(s, 1, Len(p)) = p

\* s.endswith(p)
EndsWith(s, p) == Len(s) >= Len(p) /\ SubSeq(s, Len(s) - Len(p) + 1, Len(s)) = p

\* s.strip()
Strip(s) ==
    LET keep == {i \in 1..Len(s) : ~IsSpace(s[i])}
        lo == CHOOSE i \in keep : \A j \in keep : i <= j
        hi == CHOOSE i \in keep : \A j \in keep : i >= j
    IN IF keep = {} THEN <<>> ELSE SubSeq(s, lo, hi)

\* s.isdigit(): non-empty and every character a decimal digit
IsDigit(s) == s # <<>> /\ \A i \in 1..Len(s) : \E d \in 1..10 : Digits[d] = s[i]

\* value of one decimal digit character
DigitVal(c) == (CHOOSE d \in 1..10 : Digits[d] = c) - 1

RECURSIVE ToInt(_)
\* int(s) for a digit string
ToInt(s) == IF s = <<>> THEN 0
            ELSE 10 * ToInt(SubSeq(s, 1, Len(s) - 1)) + DigitVal(s[Len(s)])

RECURSIVE Str(_)
\* str(n) for n >= 0
Str(n) == IF n < 10 THEN <<Digits[n + 1]>>
          ELSE Str(n \div 10) \o <<Digits[(n % 10) + 1]>>

\* ord(c)
Ord(c) ==
    CASE c = "\t" -> 9    [] c = "\n" -> 10   [] c = " " -> 32
      [] c = "\"" -> 34   [] c = "'" -> 39    [] c = "-" -> 45
      [] c = "/" -> 47    [] c = ":" -> 58    [] c = ";" -> 59
      [] c = "<" -> 60    [] c = ">" -> 62
      [] c = "A" -> 65    [] c = "B" -> 66
      [] c = "a" -> 97    [] c = "c" -> 99    [] c = "d" -> 100
      [] c = "e" -> 101   [] c = "f" -> 102   [] c = "i" -> 105
      [] c = "l" -> 108   [] c = "n" -> 110   [] c = "o" -> 111
      [] c = "p" -> 112   [] c = "r" -> 114   [] c = "t" -> 116
      [] c = "u" -> 117   [] c = "x" -> 120
      [] c = "U00FF" -> 255
      [] c = "U0100" -> 256
      [] OTHER -> 48 + DigitVal(c)

\* c * n: the string of n copies of the character c
Repeat(c, n) == [i \in 1..n |-> c]

RECURSIVE Join(_)
\* ''.join(chunks)
Join(chunks) == IF chunks = <<>> THEN <<>> ELSE Head(chunks) \o Join(Tail(chunks))

RECURSIVE Split(_)
\* text.split('\n')
Split(text) ==
    LET nl == {i \in 1..Len(text) : text[i] = "\n"}
        first == CHOOSE i \in nl : \A j \in nl : i <= j
    IN IF nl = {} THEN <<text>>
       ELSE <<SubSeq(text, 1, first - 1)>> \o Split(From(text, first))

(***************************************************************************)
(* Exceptions                                                              *)
(***************************************************************************)
\* no exception
NoExc == [type |-> "None", msg |-> "", arg |-> <<>>]

\* raise type(f"{msg}: {arg}")
Raise(type, msg, arg) == [type |-> type, msg |-> msg, arg |-> arg]

\* no line number in the message
NoLine == 0

\* compile has raised nothing
Unraised == [type |-> "None", msg |-> "", arg |-> <<>>, line_num |-> NoLine, cause |-> NoExc]

\* an exception of _preprocess_lines leaves compile as it is
Propagated(e) == [type |-> e.type, msg |-> e.msg, arg |-> e.arg, line_num |-> NoLine, cause |-> NoExc]

\* raise SyntaxError(f"Error on line {line_num}: {e}")
WrapLine(n, e) == [type |-> "SyntaxError", msg |-> "Error on line", arg |-> <<>>, line_num |-> n, cause |-> e]

(***************************************************************************)
(* _preprocess_lines                                                       *)
(***************************************************************************)
\* if '//' in line: line = line[:line.index('//')]
StripComment(line) ==
    LET at == {i \in 1..(Len(line) - 1) : line[i] = "/" /\ line[i + 1] = "/"}
        first == CHOOSE i \in at : \A j \in at : i <= j
    IN IF at = {} THEN line ELSE SubSeq(line, 1, first - 1)

RECURSIVE IndentLevel(_)
\* the indentation loop: 1 per leading space, TabWidth per leading tab
IndentLevel(line) ==
    IF line = <<>> THEN 0
    ELSE IF Head(line) = " " THEN 1 + IndentLevel(Tail(line))
    ELSE IF Head(line) = "\t" THEN TabWidth + IndentLevel(Tail(line))
    ELSE 0

\* no terminator is ever refused
NeverBad(content) == FALSE

\* content and not content.endswith(':') and not content.endswith(';')
BadTerminator(content) ==
    content # <<>> /\ ~EndsWith(content, <<":">>) /\ ~EndsWith(content, <<";">>)

RECURSIVE preprocess_lines(_)
\* [processed, exc]: the (indent_level, content) pairs, or the SyntaxError raised
preprocess_lines(lines) ==
    IF lines = <<>> THEN [processed |-> <<>>, exc |-> NoExc]
    ELSE LET line == StripComment(Head(lines))
             content == Strip(line)
             rest == preprocess_lines(Tail(lines))
         IN IF Strip(line) = <<>> THEN rest
            ELSE IF BadTerminator(content)
            THEN [processed |-> <<>>,
                  exc |-> Raise("SyntaxError", "Line must end with semicolon", content)]
            ELSE IF rest.exc # NoExc THEN rest
            ELSE [processed |-> <<[indent_level |-> IndentLevel(line), content |-> content]>>
                                \o rest.processed,
                  exc |-> NoExc]

(***************************************************************************)
(* Statement handlers: self is [output, loop_stack], the result adds exc   *)
(***************************************************************************)
\* '[-]'
Clear == <<"[", "-", "]">>

\* self.output.append(chunk)
Emit(self, chunk) ==
    [output |-> Append(self.output, chunk), loop_stack |-> self.loop_stack, exc |-> NoExc]

\* the handler raises e
Fail(self, e) == [output |-> self.output, loop_stack |-> self.loop_stack, exc |-> e]

handle_loop(self, indent_level) ==
    [output |-> Append(self.output, <<"[">>),
     loop_stack |-> Append(self.loop_stack, indent_level),
     exc |-> NoExc]

RECURSIVE EntString(_, _, _)
\* the loop over the characters of a string literal, from 0-based index i
EntString(out, string_content, i) ==
    IF i >= Len(string_content) THEN out
    ELSE LET moved == IF i > 0 THEN Append(out, <<">">>) ELSE out
             ascii_val == Ord(string_content[i + 1])
         IN EntString(Append(Append(moved, Clear), Repeat("+", ascii_val)),
                      string_content, i + 1)

\* the limit itself is refused too
TooLargeInclusive(num) == num >= MaxCell

\* if num > 255
TooLarge(num) == num > MaxCell

handle_ent(self, value_arg) ==
    LET value_str == Strip(value_arg)
    IN IF value_str = <<"i", "n", "p", "u", "t">>
       THEN Emit(Emit(self, Clear), <<",">>)
       ELSE IF StartsWith(value_str, <<"'">>) /\ EndsWith(value_str, <<"'">>)
               /\ Len(value_str) = 3
       THEN Emit(Emit(self, Clear), Repeat("+", Ord(value_str[2])))
       ELSE IF StartsWith(value_str, <<"\"">>) /\ EndsWith(value_str, <<"\"">>)
       THEN [output |-> EntString(self.output, SubSeq(value_str, 2, Len(value_str) - 1), 0),
             loop_stack |-> self.loop_stack, exc |-> NoExc]
       ELSE IF IsDigit(value_str)
       THEN LET num == ToInt(value_str)
            IN IF TooLarge(num)
               THEN Fail(self, Raise("ValueError", "Value is too large for a single cell",
                                     Str(num)))
               ELSE Emit(Emit(self, Clear), Repeat("+", num))
       ELSE Fail(self, Raise("SyntaxError", "Invalid value for ent", value_str))

\* only negative amounts are refused
Negative(n) == n < 0

\* if num_shifts <= 0, if amount <= 0
NotPositive(n) == n <= 0

handle_cellout(self) == Emit(self, <<".">>)

handle_shift(self, direction) == Emit(self, direction)

handle_multi_shift(self, shift_str) ==
    LET known == StartsWith(shift_str, <<"<", "<">>) \/ StartsWith(shift_str, <<">", ">">>)
        direction == IF StartsWith(shift_str, <<"<", "<">>) THEN "<" ELSE ">"
        num_str == From(shift_str, 2)
    IN IF ~known
       THEN Fail(self, Raise("SyntaxError", "Invalid shift operator", shift_str))
       ELSE IF ~IsDigit(num_str)
       THEN Fail(self, Raise("SyntaxError", "Invalid number in shift operator", shift_str))
       ELSE IF NotPositive(ToInt(num_str))
       THEN Fail(self, Raise("SyntaxError", "Number of shifts must be positive", shift_str))
       ELSE Emit(self, Repeat(direction, ToInt(num_str)))

handle_inc(self, inc_str) ==
    IF Strip(inc_str) = <<"i", "n", "c">>
    THEN Emit(self, <<"+">>)
    ELSE IF StartsWith(inc_str, <<"i", "n", "c", " ">>)
    THEN LET amount_str == Strip(From(inc_str, 4))
         IN IF ~IsDigit(amount_str)
            THEN Fail(self, Raise("SyntaxError", "Invalid increment amount", amount_str))
            ELSE IF NotPositive(ToInt(amount_str))
            THEN Fail(self, Raise("SyntaxError", "Increment amount must be positive",
                                  Str(ToInt(amount_str))))
            ELSE Emit(self, Repeat("+", ToInt(amount_str)))
    ELSE Fail(self, Raise("SyntaxError", "Invalid inc statement", inc_str))

handle_dec(self, dec_str) ==
    IF Strip(dec_str) = <<"d", "e", "c">>
    THEN Emit(self, <<"-">>)
    ELSE IF StartsWith(dec_str, <<"d", "e", "c", " ">>)
    THEN LET amount_str == Strip(From(dec_str, 4))
         IN IF ~IsDigit(amount_str)
            THEN Fail(self, Raise("SyntaxError", "Invalid decrement amount", amount_str))
            ELSE IF NotPositive(ToInt(amount_str))
            THEN Fail(self, Raise("SyntaxError", "Decrement amount must be positive",
                                  Str(ToInt(amount_str))))
            ELSE Emit(self, Repeat("-", ToInt(amount_str)))
    ELSE Fail(self, Raise("SyntaxError", "Invalid dec statement", dec_str))

handle_clr(self) == Emit(self, Clear)

(***************************************************************************)
(* _process_line                                                           *)
(***************************************************************************)
\* a frame at the line's own indentation stays open
MustCloseDeeper(stack, indent_level) == stack # <<>> /\ indent_level < stack[Len(stack)]

\* while self.loop_stack and indent_level <= self.loop_stack[-1]
MustClose(stack, indent_level) == stack # <<>> /\ indent_level <= stack[Len(stack)]

\* at most one frame is closed per line
CloseOne(self, indent_level) ==
    IF MustClose(self.loop_stack, indent_level)
    THEN [output |-> Append(self.output, <<"]">>),
          loop_stack |-> SubSeq(self.loop_stack, 1, Len(self.loop_stack) - 1)]
    ELSE self

RECURSIVE CloseLoops(_, _)
\* the loop-end loop: append ']' and pop while MustClose
CloseLoops(self, indent_level) ==
    IF MustClose(self.loop_stack, indent_level)
    THEN CloseLoops([output |-> Append(self.output, <<"]">>),
                     loop_stack |-> SubSeq(self.loop_stack, 1, Len(self.loop_stack) - 1)],
                    indent_level)
    ELSE self

\* if content.endswith(';'): content = content[:-1]
DropSemicolon(content) ==
    IF EndsWith(content, <<";">>) THEN SubSeq(content, 1, Len(content) - 1) ELSE content

\* the if/elif chain choosing the handler
Dispatch(self, indent_level, content) ==
    IF StartsWith(content, <<"l", "o", "o", "p", ":">>) THEN handle_loop(self, indent_level)
    ELSE IF StartsWith(content, <<"e", "n", "t", " ">>) THEN handle_ent(self, From(content, 4))
    ELSE IF content = <<"c", "e", "l", "l", "o", "u", "t">> THEN handle_cellout(self)
    ELSE IF content = <<"<">> \/ content = <<">">> THEN handle_shift(self, content)
    ELSE IF StartsWith(content, <<"<", "<">>) \/ StartsWith(content, <<">", ">">>)
    THEN handle_multi_shift(self, content)
    ELSE IF StartsWith(content, <<"i", "n", "c">>) THEN handle_inc(self, content)
    ELSE IF StartsWith(content, <<"d", "e", "c">>) THEN handle_dec(self, content)
    ELSE IF content = <<"c", "l", "r">> THEN handle_clr(self)
    ELSE Fail(self, Raise("SyntaxError", "Unknown statement", content))

process_line(self, indent_level, content) ==
    IF content = <<>>
    THEN [output |-> self.output, loop_stack |-> self.loop_stack, exc |-> NoExc]
    ELSE Dispatch(CloseLoops(self, indent_level), indent_level, DropSemicolon(content))

(***************************************************************************)
(* Source texts handed to compile                                          *)
(***************************************************************************)
\* lines that build block structure: loop headers and body lines at several
\* indentations, a comment-only line, a line without terminator, an unknown statement
StructLines ==
    { <<"l", "o", "o", "p", ":">>,
      <<" ", "l", "o", "o", "p", ":">>,
      <<"\t", "i", "n", "c", ";", " ", "/", "/", "x">>,
      <<"i", "n", "c", ";">>,
      <<" ", "/", "/", "x">>,
      <<"\t", "l", "o", "o", "p", ":">>,
      <<"i", "n", "c">>,
      <<" ", "f", "o", "o", ";">> }

\* one line of every statement form, with boundary and malformed operands
StmtLines ==
    { <<"e", "n", "t", " ", "0", ";">>,
      <<"e", "n", "t", " ", "2", ";">>,
      <<"e", "n", "t", " ", "0", "0", "7", ";">>,
      <<"e", "n", "t", " ", "2", "5", "5", ";">>,
      <<"e", "n", "t", " ", "2", "5", "6", ";">>,
      <<"e", "n", "t", " ", "-", "1", ";">>,
      <<"e", "n", "t", " ", "x", ";">>,
      <<"e", "n", "t", " ", "i", "n", "p", "u", "t", ";">>,
      <<"e", "n", "t", " ", "'", "A", "'", ";">>,
      <<"e", "n", "t", " ", "'", "U00FF", "'", ";">>,
      <<"e", "n", "t", " ", "'", "U0100", "'", ";">>,
      <<"e", "n", "t", " ", "\"", "A", "B", "\"", ";">>,
      <<"e", "n", "t", " ", "\"", "A", "U0100", "\"", ";">>,
      <<"e", "n", "t", " ", "\"", "\"", ";">>,
      <<"c", "e", "l", "l", "o", "u", "t", ";">>,
      <<"c", "e", "l", "l", "o", "u", "t", ":">>,
      <<"<", ";">>,
      <<">", ";">>,
      <<"<", "<", "3", ";">>,
      <<">", ">", "2", ";">>,
      <<">", ">", "0", ";">>,
      <<"<", "<", "-", "1", ";">>,
      <<">", ">", "x", ";">>,
      <<"<", "<", ";">>,
      <<"i", "n", "c", " ", "3", ";">>,
      <<"i", "n", "c", " ", "1", ";">>,
      <<"i", "n", "c", " ", "0", ";">>,
      <<"i", "n", "c", " ", "-", "1", ";">>,
      <<"i", "n", "c", " ", "x", ";">>,
      <<"i", "n", "c", "x", ";">>,
      <<"d", "e", "c", ";">>,
      <<"d", "e", "c", " ", "2", ";">>,
      <<"d", "e", "c", " ", "0", ";">>,
      <<"d", "e", "c", " ", "-", "2", ";">>,
      <<"d", "e", "c", " ", "x", ";">>,
      <<"c", "l", "r", ";">>,
      <<"l", "o", "o", "p", ":", "x", ";">> }

RECURSIVE JoinLines(_)
\* the text whose lines are ls
JoinLines(ls) ==
    IF Len(ls) = 1 THEN ls[1] ELSE ls[1] \o <<"\n">> \o JoinLines(Tail(ls))

\* block-structure programs of 1..MaxLines lines
StructSources ==
    UNION {{JoinLines(ls) : ls \in [1..n -> StructLines]} : n \in 1..MaxLines}

\* each statement alone, after an open loop header at the same indentation,
\* and inside the loop's body
StmtSources ==
    UNION {{l,
            <<"l", "o", "o", "p", ":", "\n">> \o l,
            <<"l", "o", "o", "p", ":", "\n", "\t">> \o l} : l \in StmtLines}

\* the empty text and the programs above
Sources == {<<>>} \cup StructSources \cup StmtSources

\* the texts compiled in turn on one compiler
ReuseSources ==
    {<<>>} \cup UNION {{JoinLines(ls) : ls \in [1..n -> StructLines]} : n \in 1..MaxReuseLines}

(***************************************************************************)
(* BrainBangCompiler                                                       *)
(***************************************************************************)
\* __init__
Init ==
    /\ output = <<>>
    /\ current_indent = 0
    /\ loop_stack = <<>>
    /\ source_code = <<>>
    /\ processed_lines = <<>>
    /\ line_num = 0
    /\ pc = "idle"
    /\ result = <<>>
    /\ exc = Unraised
    /\ reused = FALSE

\* the fields are left as the previous call left them
KeepFields(self) == self

\* the compiler's fields as compile sets them before reading the source
ResetFields(self) == [output |-> <<>>, loop_stack |-> <<>>]

\* the fields of a compiler just constructed
NewFields == [output |-> <<>>, loop_stack |-> <<>>]

\* compile(source_code), up to the for loop: reset, split, _preprocess_lines
Compile(s) ==
    /\ pc \in {"idle", "returned", "raised"}
    /\ LET self == ResetFields([output |-> output, loop_stack |-> loop_stack])
           pre == preprocess_lines(Split(s))
       IN /\ source_code' = s
          /\ output' = self.output
          /\ current_indent' = 0
          /\ loop_stack' = self.loop_stack
          /\ line_num' = 0
          /\ result' = <<>>
          /\ reused' = (pc = "raised" /\ output # <<>> /\ loop_stack # <<>>)
          /\ IF pre.exc # NoExc
             THEN /\ pc' = "raised"
                  /\ exc' = Propagated(pre.exc)
                  /\ processed_lines' = <<>>
             ELSE /\ pc' = "lines"
                  /\ exc' = Unraised
                  /\ processed_lines' = pre.processed

\* one iteration of the for loop: _process_line on the next pair, its exception wrapped
ProcessLine ==
    /\ pc = "lines"
    /\ line_num < Len(processed_lines)
    /\ LET n == line_num + 1
           r == process_line([output |-> output, loop_stack |-> loop_stack],
                             processed_lines[n].indent_level, processed_lines[n].content)
       IN /\ line_num' = n
          /\ output' = r.output
          /\ loop_stack' = r.loop_stack
          /\ IF r.exc # NoExc
             THEN pc' = "raised" /\ exc' = WrapLine(n, r.exc)
             ELSE pc' = "lines" /\ exc' = exc
    /\ UNCHANGED <<source_code, processed_lines, current_indent, result, reused>>

\* the loops still open are not closed
CloseNone(out, stack) == out

\* while self.loop_stack: append ']' and pop
CloseRemaining(out, stack) == out \o [i \in 1..Len(stack) |-> <<"]">>]

\* the end of compile: close the remaining loops and return the joined output
Return ==
    /\ pc = "lines"
    /\ line_num = Len(processed_lines)
    /\ output' = CloseRemaining(output, loop_stack)
    /\ loop_stack' = <<>>
    /\ result' = Join(output')
    /\ pc' = "returned"
    /\ UNCHANGED <<source_code, processed_lines, line_num, current_indent, exc, reused>>

\* a new compiler compiles one source text
Next ==
    \/ \E s \in Sources : pc = "idle" /\ Compile(s)
    \/ ProcessLine
    \/ Return

Spec == Init /\ [][Next]_vars

\* one compiler compiles source texts in turn, also after a call that raised
NextReuse ==
    \/ \E s \in ReuseSources : Compile(s)
    \/ ProcessLine
    \/ Return

SpecReuse == Init /\ [][NextReuse]_vars

RECURSIVE RunLines(_, _, _)
\* the for loop of compile from pair n on: [output, loop_stack, exc]
RunLines(self, pairs, n) ==
    IF n > Len(pairs)
    THEN [output |-> self.output, loop_stack |-> self.loop_stack, exc |-> Unraised]
    ELSE LET r == process_line(self, pairs[n].indent_level, pairs[n].content)
         IN IF r.exc # NoExc
            THEN [output |-> r.output, loop_stack |-> r.loop_stack, exc |-> WrapLine(n, r.exc)]
            ELSE RunLines([output |-> r.output, loop_stack |-> r.loop_stack], pairs, n + 1)

\* BrainBangCompiler().compile(s): what a compiler just constructed returns or raises
FreshCompile(s) ==
    LET pre == preprocess_lines(Split(s))
        r == RunLines(NewFields, pre.processed, 1)
    IN IF pre.exc # NoExc THEN [result |-> <<>>, exc |-> Propagated(pre.exc)]
       ELSE IF r.exc # Unraised THEN [result |-> <<>>, exc |-> r.exc]
       ELSE [result |-> Join(CloseRemaining(r.output, r.loop_stack)), exc |-> Unraised]

(***************************************************************************)
(* Properties                                                              *)
(***************************************************************************)
\* the pair the for loop handled last
LastPair == processed_lines[line_num]

\* the lines of the source text
SourceLines == Split(source_code)

\* the trimmed content of a source line after comment stripping
ContentOf(line) == Strip(StripComment(line))

\* the content without its terminating semicolon
Statement(content) ==
    IF content # <<>> /\ content[Len(content)] = ";"
    THEN SubSeq(content, 1, Len(content) - 1) ELSE content

\* the text that follows the first n characters of the statement
After(content, n) == SubSeq(Statement(content), n + 1, Len(Statement(content)))

\* the statement begins with the characters p
Begins(content, p) ==
    Len(Statement(content)) >= Len(p) /\ SubSeq(Statement(content), 1, Len(p)) = p

\* the text is a non-empty run of decimal digits
AllDigits(x) == x # <<>> /\ \A i \in 1..Len(x) : x[i] \in {Digits[d] : d \in 1..10}

\* the prefix sum over the first i tokens: +1 for '[', -1 for ']'
Depth(tokens, i) ==
    Cardinality({j \in 1..i : tokens[j] = "["}) - Cardinality({j \in 1..i : tokens[j] = "]"})

\* the brackets of the token stream are balanced and correctly nested
Balanced(tokens) ==
    /\ \A i \in 0..Len(tokens) : Depth(tokens, i) >= 0
    /\ Depth(tokens, Len(tokens)) = 0

\* n loop-close chunks
Closes(n) == [i \in 1..n |-> <<"]">>]

\* C1: whenever compile returns, the returned token stream has balanced and
\* correctly nested brackets: the running sum of +1 per '[' and -1 per ']' never
\* goes negative and ends at 0, also when loops were left open at end of input.
C1_BalancedBrackets == pc = "returned" => Balanced(result)

\* C1 witness: compile returned for a program whose last line is a loop header
\* inside another open loop, so two frames were flushed at end of input.
C1_Witness ==
    /\ pc = "returned"
    /\ Len(processed_lines) >= 2
    /\ \A n \in {Len(processed_lines) - 1, Len(processed_lines)} :
           Begins(processed_lines[n].content, <<"l", "o", "o", "p", ":">>)
    /\ processed_lines[Len(processed_lines)].indent_level
           > processed_lines[Len(processed_lines) - 1].indent_level
    /\ Len(result) >= 4
    /\ SubSeq(result, Len(result) - 1, Len(result)) = <<"]", "]">>

\* the operand of an ent statement
EntOperand(content) == Strip(After(content, 4))

\* the line is an ent statement
IsEnt(content) == Begins(content, <<"e", "n", "t", " ">>)

\* the operand is a character or string literal holding a character above MaxCell
WideLiteral(v) ==
    \/ Len(v) = 3 /\ v[1] = "'" /\ v[3] = "'" /\ Ord(v[2]) > MaxCell
    \/ /\ Len(v) >= 2 /\ v[1] = "\"" /\ v[Len(v)] = "\""
       /\ \E i \in 2..(Len(v) - 1) : Ord(v[i]) > MaxCell

\* C2: an ent statement whose character or string literal holds a character of
\* ordinal above 255 makes compile fail with a range error: no such line is ever
\* handled without raising, and no cell receives more than 255 increments.
C2_WideLiteralRaises ==
    \A n \in 1..line_num :
        (IsEnt(processed_lines[n].content)
         /\ WideLiteral(EntOperand(processed_lines[n].content)))
        => /\ pc = "raised"
           /\ n = line_num
           /\ exc.cause.type = "ValueError"
           /\ \A i \in 1..Len(output) : Len(output[i]) <= MaxCell

\* the positions of the source lines that are not blank after comment stripping
NonBlank == {i \in 1..Len(SourceLines) : ContentOf(SourceLines[i]) # <<>>}

\* the 1-based position in the source text of the k-th non-blank line
SourcePos(k) == CHOOSE i \in NonBlank : Cardinality({j \in NonBlank : j <= i}) = k

\* the last character of a non-blank content is neither ':' nor ';'
Unterminated(content) == content # <<>> /\ content[Len(content)] \notin {":", ";"}

\* the positions of the source lines without terminator
BadLines == {i \in 1..Len(SourceLines) : Unterminated(ContentOf(SourceLines[i]))}

\* the position of the line compile failed on
OffendingPos ==
    IF exc.cause = NoExc
    THEN CHOOSE i \in BadLines : \A j \in BadLines : i <= j
    ELSE SourcePos(line_num)

\* C3: every error compile reports carries the 1-based position in the source
\* text of the offending line, also when blank or comment-only lines precede it.
C3_ErrorCarriesSourceLine == pc = "raised" => exc.line_num = OffendingPos

\* the text is a decimal integer of at least 1
PositiveNumber(x) == AllDigits(x) /\ \E i \in 1..Len(x) : x[i] # "0"

\* the content is one of the supported statement forms
InGrammar(content) ==
    \/ content \in { <<"l", "o", "o", "p", ":">>,
                     <<"c", "e", "l", "l", "o", "u", "t", ";">>,
                     <<"<", ";">>, <<">", ";">>,
                     <<"i", "n", "c", ";">>, <<"d", "e", "c", ";">>,
                     <<"c", "l", "r", ";">> }
    \/ /\ content[Len(content)] = ";"
       /\ \/ IsEnt(content) /\ After(content, 4) # <<>>
          \/ Begins(content, <<"<", "<">>) /\ AllDigits(After(content, 2))
          \/ Begins(content, <<">", ">">>) /\ AllDigits(After(content, 2))
          \/ Begins(content, <<"i", "n", "c", " ">>) /\ AllDigits(After(content, 4))
          \/ Begins(content, <<"d", "e", "c", " ">>) /\ AllDigits(After(content, 4))

\* C4: a line whose content is not one of the supported forms makes compile fail
\* with a SyntaxError: no line outside the grammar is ever handled without
\* raising, so none opens a loop frame or emits statement tokens.
C4_OutsideGrammarRaises ==
    \A n \in 1..line_num :
        ~InGrammar(processed_lines[n].content)
        => pc = "raised" /\ n = line_num /\ exc.cause.type = "SyntaxError"

\* the for loop handles its next pair in this step
Handles == pc = "lines" /\ line_num' = line_num + 1

\* the frames popped in this step
Popped == Len(loop_stack) - (IF pc' = "lines" /\ Begins(processed_lines[line_num'].content,
                                                       <<"l", "o", "o", "p", ":">>)
                             THEN Len(loop_stack') - 1 ELSE Len(loop_stack'))

\* the tokens this step appended
Appended == SubSeq(Join(output'), Len(Join(output)) + 1, Len(Join(output')))

\* C5: for a decimal integer operand N, `ent N;` emits, after the loop-closes of
\* the block tracker, exactly the clear idiom followed by exactly N increments
\* when N <= 255, and raises a range error emitting nothing when N > 255.
C5_EntInteger ==
    [][ (Handles /\ IsEnt(processed_lines[line_num'].content)
                 /\ AllDigits(EntOperand(processed_lines[line_num'].content)))
        => LET N == ToInt(EntOperand(processed_lines[line_num'].content))
           IN IF N <= 255
              THEN /\ pc' = "lines"
                   /\ Appended = Join(Closes(Popped)) \o <<"[", "-", "]">> \o [i \in 1..N |-> "+"]
              ELSE /\ pc' = "raised"
                   /\ exc'.cause.type = "ValueError"
                   /\ Appended = Join(Closes(Popped)) ]_vars

\* C5 witness: `ent 255;` at the indentation of an open loop was handled: the
\* loop was closed, then the clear idiom and 255 increments were appended.
C5_Witness ==
    /\ pc = "lines"
    /\ line_num = 2
    /\ LastPair.content = <<"e", "n", "t", " ", "2", "5", "5", ";">>
    /\ Join(output) = <<"[", "]", "[", "-", "]">> \o [i \in 1..255 |-> "+"]

\* the primitive and the amount text of a counted shift, increment or decrement
Counted(content) ==
    IF Begins(content, <<"<", "<">>) THEN [token |-> "<", amount |-> After(content, 2)]
    ELSE IF Begins(content, <<">", ">">>) THEN [token |-> ">", amount |-> After(content, 2)]
    ELSE IF Begins(content, <<"i", "n", "c", " ">>) THEN [token |-> "+", amount |-> After(content, 4)]
    ELSE IF Begins(content, <<"d", "e", "c", " ">>) THEN [token |-> "-", amount |-> After(content, 4)]
    ELSE [token |-> "", amount |-> <<>>]

\* C6: `<<N`, `>>N`, `inc N` and `dec N` emit exactly N copies of their primitive
\* and nothing else for every N >= 1, and for N = 0, a negative N or non-digit
\* text compile fails and the statement emits no token.
C6_CountedAmount ==
    [][ (Handles /\ Counted(processed_lines[line_num'].content).token # ""
                 /\ processed_lines[line_num'].content[Len(processed_lines[line_num'].content)] = ";")
        => LET c == Counted(processed_lines[line_num'].content)
           IN IF PositiveNumber(c.amount)
              THEN /\ pc' = "lines"
                   /\ Appended = Join(Closes(Popped)) \o [i \in 1..ToInt(c.amount) |-> c.token]
              ELSE /\ pc' = "raised"
                   /\ Appended = Join(Closes(Popped)) ]_vars

\* C6 witness: `<<3;` in the body of an open loop was handled and appended
\* exactly three '<'.
C6_Witness ==
    /\ pc = "lines"
    /\ line_num = 2
    /\ LastPair.content = <<"<", "<", "3", ";">>
    /\ loop_stack = <<0>>
    /\ Join(output) = <<"[", "<", "<", "<">>

\* C7: if any non-blank line of the source, after comment stripping, ends in
\* neither ':' nor ';', compile fails with a syntax error before any line is
\* dispatched: no token has been emitted and no loop frame pushed.
C7_TerminatorCheckedFirst ==
    (pc # "idle" /\ BadLines # {})
    => /\ pc = "raised"
       /\ exc.type = "SyntaxError"
       /\ line_num = 0
       /\ output = <<>>
       /\ loop_stack = <<>>

\* C7 witness: compile raised for a text whose first two lines are well-formed
\* loop headers and whose only unterminated line comes after them.
C7_Witness ==
    /\ pc = "raised"
    /\ exc.msg = "Line must end with semicolon"
    /\ Len(SourceLines) >= 3
    /\ \A i \in BadLines : i >= 3
    /\ \A i \in 1..2 : ContentOf(SourceLines[i]) = <<"l", "o", "o", "p", ":">>

\* C8: what compile(s) returns or raises depends only on s: on a compiler that
\* has compiled before, also after a call that raised with loops open and tokens
\* appended, it is what a compiler just constructed returns or raises.
C8_ResultDependsOnSourceOnly ==
    pc \in {"returned", "raised"}
    => [result |-> result, exc |-> exc] = FreshCompile(source_code)

\* C8 witness: compile returned tokens on a compiler whose previous call had
\* raised with a loop open and tokens appended.
C8_Witness == pc = "returned" /\ reused /\ result # <<>>

RECURSIVE FramesBelow(_, _)
\* the frames of the stack opened at an indentation below k, in order
FramesBelow(stack, k) ==
    IF stack = <<>> THEN <<>>
    ELSE IF Head(stack) < k THEN <<Head(stack)>> \o FramesBelow(Tail(stack), k)
    ELSE FramesBelow(Tail(stack), k)

\* C9: when a line at indent k is handled, one loop-close per open frame with
\* opened_at_indent >= k is appended before any token of the line's statement,
\* and exactly the frames with opened_at_indent < k stay open below whatever
\* the statement pushes.
C9_ClosesBeforeStatement ==
    [][ Handles
        => LET k == processed_lines[line_num'].indent_level
               n == Cardinality({i \in 1..Len(loop_stack) : loop_stack[i] >= k})
               kept == FramesBelow(loop_stack, k)
           IN /\ Len(output') >= Len(output) + n
              /\ SubSeq(output', 1, Len(output) + n) = output \o Closes(n)
              /\ Len(output') > Len(output) + n => output'[Len(output) + n + 1] # <<"]">>
              /\ Len(loop_stack') >= Len(kept)
              /\ SubSeq(loop_stack', 1, Len(kept)) = kept
              /\ Len(loop_stack') > Len(kept)
                 => /\ loop_stack' = Append(kept, k)
                    /\ output' = output \o Closes(n) \o << <<"[">> >> ]_vars

\* C9 witness: with loops open at indents 0 and 1, a loop header at indent 1 was
\* handled: the inner loop was closed, the outer kept, and a sibling opened.
C9_Witness ==
    /\ pc = "lines"
    /\ line_num = 3
    /\ LastPair = [indent_level |-> 1, content |-> <<"l", "o", "o", "p", ":">>]
    /\ loop_stack = <<0, 1>>
    /\ Join(output) = <<"[", "[", "]", "[">>

\* C10: in every reachable state the loop-frame stack is strictly increasing in
\* opened_at_indent from bottom to top.
C10_StackStrictlyIncreasing ==
    \A i \in 1..(Len(loop_stack) - 1) : loop_stack[i] < loop_stack[i + 1]

\* C10 witness: a loop header at the indentation of the open loop was handled
\* (the open loop closed, a sibling opened), then a deeper header nested in it.
C10_Witness ==
    /\ loop_stack = <<0, 1>>
    /\ line_num = 3
    /\ Join(output) = <<"[", "]", "[", "[">>

====
